---- MODULE Spec2Model ----
(***************************************************************************)
(* Model of the Toshy KDE D-Bus window-context service                     *)
(* (src/kde-kwin-dbus-service/toshy_kde_dbus_service.py) and of the        *)
(* environment probe it polls (src/lib/env.py, get_env_info).              *)
(*                                                                         *)
(* Representation.  Python str values are TLA+ strings.  Python None is    *)
(* the reserved string None (no host value of the model equals it).  An   *)
(* unset environment variable is None, as os.environ.get returns it.       *)
(* The distro name/version part of get_env_info (env.py 37-81) has no      *)
(* effect on the gate or the relay and is not modelled.                    *)
(***************************************************************************)
EXTENDS Integers, Sequences, FiniteSets, TLC

(***************************************************************************)
(* Bounds of the model.                                                    *)
(***************************************************************************)
\* longest process listing psutil.process_iter yields in a probe
MaxProcs == 2
\* number of IPC calls dispatched while serving
MaxCalls == 4

(***************************************************************************)
(* Text helpers: str.casefold and re.search(k, s, re.I) for the ASCII      *)
(* names env.py deals with.                                                *)
(***************************************************************************)
None == "<None>"

UpperChars == "ABCDEFGHIJKLMNOPQRSTUVWXYZ"
LowerChars == "abcdefghijklmnopqrstuvwxyz"

\* lower-case letter of each upper-case letter
FoldMap ==
    [c \in {SubSeq(UpperChars, i, i) : i \in 1..Len(UpperChars)} |->
        LET i == CHOOSE j \in 1..Len(UpperChars) : SubSeq(UpperChars, j, j) = c
        IN  SubSeq(LowerChars, i, i)]

\* one character folded to lower case
FoldChar(c) == IF c \in DOMAIN FoldMap THEN FoldMap[c] ELSE c

RECURSIVE casefold(_)
casefold(s) ==
    IF Len(s) = 0 THEN ""
    ELSE FoldChar(SubSeq(s, 1, 1)) \o casefold(SubSeq(s, 2, Len(s)))

\* Python truthiness of an optional string: None and "" are falsy
Truthy(s) == s # None /\ s # ""

\* Python `a or b`
PyOr(a, b) == IF Truthy(a) THEN a ELSE b

\* variant: the search without re.I
re_search_I_CaseSensitive(k, s) ==
    \E i \in 1..(Len(s) - Len(k) + 1) : SubSeq(s, i, i + Len(k) - 1) = k

\* re.search(k, s, re.I) for a pattern k without metacharacters:
\* k occurs in s as a substring, letter case ignored
re_search_I(k, s) ==
    LET fk == casefold(k)
        fs == casefold(s)
    IN  \E i \in 1..(Len(fs) - Len(fk) + 1) : SubSeq(fs, i, i + Len(fk) - 1) = fk

(***************************************************************************)
(* src/lib/env.py                                                          *)
(***************************************************************************)
\* session types get_env_info accepts (after casefold)
KnownSessionTypes == {"x11", "xorg", "wayland"}

\* desktop_env_names, in dict (insertion) order
desktop_env_names == <<
    <<"Budgie",        "budgie">>,
    <<"Cinnamon",      "cinnamon">>,
    <<"Deepin",        "deepin">>,
    <<"Enlightenment", "enlightenment">>,
    <<"GNOME",         "gnome">>,
    <<"Hyprland",      "hypr">>,
    <<"IceWM",         "icewm">>,
    <<"KDE",           "kde">>,
    <<"LXDE",          "lxde">>,
    <<"LXQt",          "lxqt">>,
    <<"MATE",          "mate">>,
    <<"Pantheon",      "pantheon">>,
    <<"Plasma",        "kde">>,
    <<"SwayWM",        "sway">>,
    <<"Ubuntu",        "gnome">>,
    <<"Unity",         "unity">>,
    <<"Xfce",          "xfce">> >>

\* the for loop over desktop_env_names.items(): value of the first entry
\* whose key is found in the raw name, None when the loop ends without one
RECURSIVE NormalizeFrom(_, _)
NormalizeFrom(raw, i) ==
    IF i > Len(desktop_env_names) THEN None
    ELSE IF re_search_I(desktop_env_names[i][1], raw)
         THEN desktop_env_names[i][2]
         ELSE NormalizeFrom(raw, i + 1)

\* lines 129-138: the normalized key, or the raw name when nothing matches
NormalizeDesktop(raw) ==
    LET found == NormalizeFrom(raw, 1)
    IN  IF Truthy(found) THEN found ELSE raw

(***************************************************************************)
(* Values of the host state a probe can observe.                           *)
(***************************************************************************)
SessionTypeVals    == {None, "x11", "wayland", "Wayland", "tty"}
WaylandDisplayVals == {None, "wayland-0"}
SessionDesktopVals == {None, "", "KDE", "gnome"}
CurrentDesktopVals == {None, "plasma", "SwayWM", "i3"}
ProcNames          == {"plasmashell", "kwin_ft", "kwin_x11", "gnome-shell", "sway", "bash"}

\* desktop names for get_env_info() applied on its own
FnSessionTypeVals    == {None, "wayland", "x11"}
FnSessionDesktopVals == {None, "Plasma", "plasma", "SwayWM", "sway"}
FnCurrentDesktopVals == {None, "Budgie:GNOME", "ubuntu:GNOME", "X-Cinnamon", "Openbox"}

\* NormalizeDesktop and casefold tabulated over the host values above
NormalizedOf == [raw \in (SessionDesktopVals \cup CurrentDesktopVals \cup
                          FnSessionDesktopVals \cup FnCurrentDesktopVals) \ {None, ""} |->
                    NormalizeDesktop(raw)]
CasefoldOf   == [st \in (SessionTypeVals \cup WaylandDisplayVals) \ {None} |-> casefold(st)]

Normalized(raw) == IF raw \in DOMAIN NormalizedOf THEN NormalizedOf[raw]
                   ELSE NormalizeDesktop(raw)
Casefolded(st)  == IF st \in DOMAIN CasefoldOf THEN CasefoldOf[st] ELSE casefold(st)

\* variant: kwin_ft is not in the list of KDE processes
KdeProcs_NoKwinFt == {"plasmashell", "kwin_x11"}

KdeProcs == {"plasmashell", "kwin_ft", "kwin_x11"}

\* variant: the loop goes on after an override, so a later process of
\* another family overrides again
RECURSIVE Doublecheck_NoBreak(_, _, _)
Doublecheck_NoBreak(de, procs, i) ==
    IF i > Len(procs) THEN de
    ELSE LET name == procs[i]
         IN  IF name \in KdeProcs /\ de # "kde" THEN Doublecheck_NoBreak("kde", procs, i + 1)
             ELSE IF name = "gnome-shell" /\ de # "gnome"
                  THEN Doublecheck_NoBreak("gnome", procs, i + 1)
             ELSE IF name = "sway" /\ de # "sway"
                  THEN Doublecheck_NoBreak("sway", procs, i + 1)
             ELSE Doublecheck_NoBreak(de, procs, i + 1)

\* lines 142-157: the psutil doublecheck, from process i of the listing on
RECURSIVE Doublecheck(_, _, _)
Doublecheck(de, procs, i) ==
    IF i > Len(procs) THEN de
    ELSE LET name == procs[i]
         IN  IF name \in KdeProcs /\ de # "kde" THEN "kde"
             ELSE IF name = "gnome-shell" /\ de # "gnome" THEN "gnome"
             ELSE IF name = "sway" /\ de # "sway" THEN "sway"
             ELSE Doublecheck(de, procs, i + 1)

\* lines 86-96: the session type, or the exception raised
SessionTypeOf(host) ==
    LET xdg == PyOr(host.XDG_SESSION_TYPE, None)
        st  == IF Truthy(xdg) THEN xdg ELSE host.WAYLAND_DISPLAY
    IN  IF ~Truthy(st) THEN [raised |-> "EnvironmentError", value |-> None]
        ELSE IF Casefolded(st) \notin KnownSessionTypes
             THEN [raised |-> "EnvironmentError", value |-> None]
             ELSE [raised |-> "", value |-> st]

\* get_env_info(): the snapshot, or the exception that leaves the function.
\* With no desktop name set, _desktop_env is None and re.search(k, None)
\* raises TypeError in the first iteration of the normalization loop.
get_env_info(host) ==
    LET st  == SessionTypeOf(host)
        raw == PyOr(host.XDG_SESSION_DESKTOP, host.XDG_CURRENT_DESKTOP)
    IN  IF st.raised # ""
        THEN [raised |-> st.raised, SESSION_TYPE |-> None, DESKTOP_ENV |-> None]
        ELSE IF ~Truthy(raw)
        THEN [raised |-> "TypeError", SESSION_TYPE |-> None, DESKTOP_ENV |-> None]
        ELSE LET guess == Normalized(raw)
                 de    == IF host.psutil THEN Doublecheck(guess, host.procs, 1)
                          ELSE guess
             IN  [raised |-> "", SESSION_TYPE |-> st.value, DESKTOP_ENV |-> de]

(***************************************************************************)
(* Host states a probe can observe.                                        *)
(***************************************************************************)
\* process listings: sequences of process names of length 0..MaxProcs
ProcLists == UNION {[1..n -> ProcNames] : n \in 0..MaxProcs}

\* psutil not importable: no listing is taken
Hosts ==
    [XDG_SESSION_TYPE : SessionTypeVals, WAYLAND_DISPLAY : WaylandDisplayVals,
     XDG_SESSION_DESKTOP : SessionDesktopVals, XDG_CURRENT_DESKTOP : CurrentDesktopVals,
     psutil : {TRUE}, procs : ProcLists]
    \cup
    [XDG_SESSION_TYPE : SessionTypeVals, WAYLAND_DISPLAY : WaylandDisplayVals,
     XDG_SESSION_DESKTOP : SessionDesktopVals, XDG_CURRENT_DESKTOP : CurrentDesktopVals,
     psutil : {FALSE}, procs : {<< >>}]

\* what one call of get_env_info() can return or raise, over all host states
Snapshots == {get_env_info(host) : host \in Hosts}

\* host states for get_env_info() applied on its own
FnHosts ==
    [XDG_SESSION_TYPE : FnSessionTypeVals, WAYLAND_DISPLAY : {None},
     XDG_SESSION_DESKTOP : FnSessionDesktopVals, XDG_CURRENT_DESKTOP : FnCurrentDesktopVals,
     psutil : {TRUE}, procs : ProcLists]
    \cup
    [XDG_SESSION_TYPE : FnSessionTypeVals, WAYLAND_DISPLAY : {None},
     XDG_SESSION_DESKTOP : FnSessionDesktopVals, XDG_CURRENT_DESKTOP : FnCurrentDesktopVals,
     psutil : {FALSE}, procs : {<< >>}]

\* platform.system(), os.name and os.geteuid() of the machine the process runs on
Machines ==
    { [system |-> "Linux",   os_name |-> "posix", euid |-> 1000],
      [system |-> "Linux",   os_name |-> "posix", euid |-> 0],
      [system |-> "Darwin",  os_name |-> "posix", euid |-> 1000],
      [system |-> "Windows", os_name |-> "nt",    euid |-> 1000] }

Signals == {"SIGINT", "SIGQUIT"}

\* arguments of NotifyActiveWindow as they arrive (dbus.String, in_signature 'sss')
DBusString(t) == [dbus_type |-> "s", text |-> t]
Captions        == {"Firefox", "Konsole"}
ResourceClasses == {"firefox", "konsole"}
ResourceNames   == {"Navigator", "konsole"}
Callers         == {"kwin-script", "other-client"}

\* what `qdbus ... isScriptLoaded` can do: tool not on the path, output, non-zero exit
QueryToolOutcomes ==
    {"missing", "true\n", "false\n", "CalledProcessError", "FileNotFoundError", "OSError"}

\* what check_output raises when the tool is found on the path but cannot be
\* executed; `except subprocess.CalledProcessError` (line 115) does not catch it
QueryToolUncaught == {"FileNotFoundError", "OSError"}

\* what dbus.service.BusName() (line 147) can meet: the name given, the
\* request queued behind an owner, or an exception
BusNameReplies == {"primary_owner", "in_queue", "DBusException"}

(***************************************************************************)
(* src/kde-kwin-dbus-service/toshy_kde_dbus_service.py                     *)
(***************************************************************************)
VARIABLES
    machine,        \* the host machine (fixed for the run)
    pc,             \* position of the process in the script
    exit_code,      \* << >> while running, <<code>> once the process has exited
    exit_cause,     \* "" while running, then what ended the process
    exit_from,      \* "" while running, then the position at which the process ended
    handlers,       \* signals for which signal_handler is installed
    SESSION_TYPE,   \* module global
    DESKTOP_ENV,    \* module global
    loop_delay,     \* module global; 0 before line 80 assigns it
    obj,            \* << >>, or <<the DBUS_Object's fields>> once constructed
    registered,     \* the endpoint is registered: the process owns the bus name
    name_reply,     \* "none", or what the bus answered to the name request of line 147
    helper,         \* kickstart script: "not_attempted", "launched", "failed"
    qtool,          \* query tool check: "not_run", "missing", "reported", "error"
    \* observations of the run (history)
    probes,         \* number of check_environment() calls made
    probeLog,       \* per call: "match", "mismatch" or "raised"
    sleeps,         \* the delays slept, in order
    helper_attempts,\* number of Popen([kickstart_cmd]) calls
    reg_attempts,   \* number of DBUS_Object constructions attempted
    signalled,      \* signals delivered to an installed handler
    reg_failed,     \* dbus.SessionBus() or the DBUS_Object construction raised
    lastCall,       \* "none", or the method of the latest dispatched call
    calls,          \* number of IPC calls dispatched
    lastNotify,     \* << >>, or <<the latest NotifyActiveWindow call>>
    lastReply,      \* << >>, or <<the latest GetActiveWindow reply>>
    replySource,    \* lastNotify as it was when the latest reply was given
    \* get_env_info() applied on its own (specification SpecEnv)
    probe_host,     \* the host state the function reads
    probe_info      \* NotCalled, or what the function returned or raised

vars == << machine, pc, exit_code, exit_cause, exit_from, handlers, SESSION_TYPE, DESKTOP_ENV,
           loop_delay, obj, registered, name_reply, helper, qtool, probes, probeLog, sleeps,
           helper_attempts, reg_attempts, signalled, reg_failed, calls, lastCall,
           lastNotify, lastReply, replySource, probe_host, probe_info >>

envVars == << probe_host, probe_info >>

procVars == << SESSION_TYPE, DESKTOP_ENV, loop_delay >>
relayVars == << obj, registered, name_reply, calls, lastCall, lastNotify, lastReply, replySource,
               reg_attempts, reg_failed >>
gateHist == << probes, probeLog, sleeps >>
auxVars == << helper, qtool, helper_attempts >>

\* the gate's constants
InitialDelay == 2
DelayStep    == 2
DelayCeiling == 8

\* the pair the spec requires of a snapshot (used to label the probe log)
IsRequiredPair(session_type, desktop_env) ==
    session_type = "wayland" /\ desktop_env \in {"kde", "plasma"}

\* line 40: the superuser check
IsRoot(m) == m.os_name = "posix" /\ m.euid = 0

\* line 52: the platform check
PlatformAccepted(m) == m.system # "Windows"

\* variant: the handler acts on SIGINT only
signal_handler_SigintOnly(sig) == sig = "SIGINT"

\* lines 44-50: what signal_handler does with a signal: TRUE = sys.exit(0)
signal_handler(sig) == sig \in {"SIGINT", "SIGQUIT"}

\* variant: the ceiling test allows one more step of the delay
GateExhausted_LateCeiling(delay) == delay > DelayCeiling + DelayStep

\* variant: the ceiling test is >= instead of >
GateExhausted_AtCeiling(delay) == delay >= DelayCeiling

\* line 82
GateExhausted(delay) == delay > DelayCeiling

\* variant: the session type is not tested
GateMatch_IgnoresSession(desktop_env, session_type) == desktop_env \in {"kde", "plasma"}

\* line 85
GateMatch(desktop_env, session_type) ==
    desktop_env \in {"kde", "plasma"} /\ session_type = "wayland"

\* variant: the delay grows by one
NextDelay_ByOne(delay) == delay + 1

\* variant: the delay doubles instead of growing by the step
NextDelay_Doubling(delay) == delay * 2

\* line 89
NextDelay(delay) == delay + DelayStep

\* lines 107-117: is_script_loaded(); check_output returns bytes, and a bytes
\* value never equals the str 'true'
is_script_loaded(outcome) ==
    IF outcome = "CalledProcessError" THEN FALSE
    ELSE [type |-> "bytes", data |-> outcome] = [type |-> "str", data |-> "true"]

\* main(), lines 172-188, by what dbus.SessionBus() (line 177, outside the try)
\* and a bus call of the DBUS_Object construction (line 181, inside it) do: the
\* exit taken, or the entry into GLib.MainLoop().run() (line 188, loops), which
\* does not return.  The steps of main() apply it to the call they make.
main(bus, construct) ==
    IF bus # "ok"
    THEN [exits |-> TRUE, code |-> 1, cause |-> "DBusException:SessionBus",
          attempted |-> FALSE, loops |-> FALSE]
    ELSE IF construct # "ok"
    THEN [exits |-> TRUE, code |-> 1, cause |-> "DBusException:DBUS_Object",
          attempted |-> TRUE, loops |-> FALSE]
    ELSE [exits |-> FALSE, code |-> 0, cause |-> "", attempted |-> TRUE, loops |-> TRUE]

\* variant: __init__ leaves the resource name empty
DBUS_Object_init_EmptyName ==
    [caption |-> "NO_DATA", resource_class |-> "NO_DATA", resource_name |-> ""]

\* lines 148-150: the fields DBUS_Object.__init__ sets
DBUS_Object_init ==
    [caption |-> "NO_DATA", resource_class |-> "NO_DATA", resource_name |-> "NO_DATA"]

\* str() of a dbus.String argument
str(a) == a.text

\* variant: only the caption is stored
NotifyActiveWindow_CaptionOnly(self, caption, resource_class, resource_name) ==
    [self EXCEPT !.caption = str(caption)]

\* variant: resource_class and resource_name are stored crosswise
NotifyActiveWindow_Swapped(self, caption, resource_class, resource_name) ==
    [self EXCEPT !.caption        = str(caption),
                 !.resource_class = str(resource_name),
                 !.resource_name  = str(resource_class)]

\* lines 153-157: the object after NotifyActiveWindow(caption, resource_class, resource_name)
NotifyActiveWindow(self, caption, resource_class, resource_name) ==
    [self EXCEPT !.caption        = str(caption),
                 !.resource_class = str(resource_class),
                 !.resource_name  = str(resource_name)]

\* lines 165-169: the mapping GetActiveWindow returns
GetActiveWindow(self) ==
    [caption        |-> self.caption,
     resource_class |-> self.resource_class,
     resource_name  |-> self.resource_name]

\* get_env_info() not called
NotCalled == [raised |-> "not_called", SESSION_TYPE |-> None, DESKTOP_ENV |-> None]

\* the host state of a machine on which nothing is set
BareHost ==
    [XDG_SESSION_TYPE |-> None, WAYLAND_DISPLAY |-> None, XDG_SESSION_DESKTOP |-> None,
     XDG_CURRENT_DESKTOP |-> None, psutil |-> FALSE, procs |-> << >>]

\* the process before its first statement
ProcessStart ==
    /\ machine \in Machines
    /\ pc = "root_check"
    /\ exit_code = << >>
    /\ exit_cause = ""
    /\ exit_from = ""
    /\ handlers = {}
    /\ SESSION_TYPE = None
    /\ DESKTOP_ENV = None
    /\ loop_delay = 0
    /\ obj = << >>
    /\ registered = FALSE
    /\ name_reply = "none"
    /\ helper = "not_attempted"
    /\ qtool = "not_run"
    /\ probes = 0
    /\ probeLog = << >>
    /\ sleeps = << >>
    /\ helper_attempts = 0
    /\ reg_attempts = 0
    /\ signalled = {}
    /\ reg_failed = FALSE
    /\ calls = 0
    /\ lastCall = "none"
    /\ lastNotify = << >>
    /\ lastReply = << >>
    /\ replySource = << >>

Init ==
    /\ ProcessStart
    /\ probe_host = BareHost
    /\ probe_info = NotCalled

\* sys.exit(code), or an uncaught exception (exit status 1)
Exit(code, cause) ==
    /\ pc' = "exited"
    /\ exit_code' = <<code>>
    /\ exit_cause' = cause
    /\ exit_from' = pc

Goto(label) ==
    /\ pc' = label
    /\ UNCHANGED << exit_code, exit_cause, exit_from >>

\* lines 40-42
RootCheck ==
    /\ pc = "root_check"
    /\ IF IsRoot(machine) THEN Exit(1, "root") ELSE Goto("platform_check")
    /\ UNCHANGED << envVars, machine, handlers, procVars, relayVars, gateHist, auxVars, signalled >>

\* variant: the accepted platform goes on to the gate with no handler installed
PlatformCheck_NoHandlers ==
    /\ pc = "platform_check"
    /\ handlers' = handlers
    /\ IF PlatformAccepted(machine) THEN Goto("probe") ELSE Exit(1, "platform")
    /\ UNCHANGED << envVars, machine, procVars, relayVars, gateHist, auxVars, signalled >>

\* lines 52-57
PlatformCheck ==
    /\ pc = "platform_check"
    /\ IF PlatformAccepted(machine)
       THEN /\ handlers' = Signals
            /\ Goto("probe")
       ELSE /\ handlers' = handlers
            /\ Exit(1, "platform")
    /\ UNCHANGED << envVars, machine, procVars, relayVars, gateHist, auxVars, signalled >>

\* check_environment() (lines 68-75), called at line 78 and at line 90;
\* after the call of line 78, line 80 sets loop_delay
Probe ==
    /\ pc = "probe"
    /\ \E env_info \in Snapshots :
             IF env_info.raised # ""
             THEN /\ Exit(1, env_info.raised)
                  /\ probeLog' = Append(probeLog, "raised")
                  /\ UNCHANGED procVars
             ELSE /\ Goto("gate")
                  /\ SESSION_TYPE' = env_info.SESSION_TYPE
                  /\ DESKTOP_ENV' = env_info.DESKTOP_ENV
                  /\ loop_delay' = IF probes = 0 THEN InitialDelay ELSE loop_delay
                  /\ probeLog' = Append(probeLog,
                        IF IsRequiredPair(env_info.SESSION_TYPE, env_info.DESKTOP_ENV)
                        THEN "match" ELSE "mismatch")
    /\ probes' = probes + 1
    /\ UNCHANGED << envVars, machine, handlers, relayVars, sleeps, auxVars, signalled >>

\* lines 81-87: one evaluation of the loop head
GateCheck ==
    /\ pc = "gate"
    /\ IF GateExhausted(loop_delay) THEN Exit(0, "gate_exhausted")
       ELSE IF GateMatch(DESKTOP_ENV, SESSION_TYPE) THEN Goto("query_tool")
       ELSE Goto("sleep")
    /\ UNCHANGED << envVars, machine, handlers, procVars, relayVars, gateHist, auxVars, signalled >>

\* lines 88-89: time.sleep(loop_delay); loop_delay += 2
Sleep ==
    /\ pc = "sleep"
    /\ sleeps' = Append(sleeps, loop_delay)
    /\ loop_delay' = NextDelay(loop_delay)
    /\ Goto("probe")
    /\ UNCHANGED << envVars, machine, handlers, SESSION_TYPE, DESKTOP_ENV, relayVars, probes,
                    probeLog, auxVars, signalled >>

\* lines 94-121: the informational query-tool check
QueryTool ==
    /\ pc = "query_tool"
    /\ \E outcome \in QueryToolOutcomes :
         IF outcome \in QueryToolUncaught
         THEN /\ Exit(1, outcome)
              /\ qtool' = qtool
         ELSE /\ Goto("kickstart")
              /\ qtool' = IF outcome = "missing" THEN "missing"
                          ELSE IF outcome = "CalledProcessError" THEN "error"
                          ELSE IF is_script_loaded(outcome) THEN "reported_loaded"
                          ELSE "reported"
    /\ UNCHANGED << envVars, machine, handlers, procVars, relayVars, gateHist, helper,
                    helper_attempts, signalled >>

\* lines 126-128: Popen of the kickstart script; a missing (or non-executable)
\* script makes Popen raise FileNotFoundError (PermissionError), which nothing catches
Kickstart ==
    /\ pc = "kickstart"
    /\ helper_attempts' = helper_attempts + 1
    /\ \E script_present \in BOOLEAN :
         IF script_present
         THEN /\ helper' = "launched"
              /\ Goto("main")
         ELSE /\ helper' = "failed"
              /\ Exit(1, "FileNotFoundError")
    /\ UNCHANGED << envVars, machine, handlers, procVars, relayVars, gateHist, qtool, signalled >>

\* main(), lines 172-177: dbus.SessionBus(), outside the try
Main ==
    /\ pc = "main"
    /\ \E bus \in {"ok", "DBusException"} :
         LET r == main(bus, "ok")
         IN  /\ reg_failed' = (bus # "ok")
             /\ IF r.exits THEN Exit(r.code, r.cause) ELSE Goto("construct")
    /\ UNCHANGED << envVars, machine, handlers, procVars, obj, registered, name_reply, reg_attempts, calls,
                    lastCall, lastNotify, lastReply, replySource, gateHist, auxVars, signalled >>

\* line 181 enters DBUS_Object.__init__; line 145 exports the object at its path
InitExport ==
    /\ pc = "construct"
    /\ \E construct \in {"ok", "DBusException"} :
         LET r == main("ok", construct)
         IN  /\ reg_attempts' = IF r.attempted THEN reg_attempts + 1 ELSE reg_attempts
             /\ reg_failed' = (construct # "ok")
             /\ IF r.exits THEN Exit(r.code, r.cause) ELSE Goto("request_name")
    /\ UNCHANGED << envVars, machine, handlers, procVars, obj, registered, name_reply, calls, lastCall,
                    lastNotify, lastReply, replySource, gateHist, auxVars, signalled >>

\* lines 146-147: dbus.service.BusName() requests the bus name with the default
\* flags: the bus makes the connection the owner, or, when the name has an
\* owner, queues the request; neither raises
InitBusName ==
    /\ pc = "request_name"
    /\ \E reply \in BusNameReplies :
         LET r == main("ok", IF reply = "DBusException" THEN reply ELSE "ok")
         IN  /\ reg_failed' = (reply = "DBusException")
             /\ registered' = (reply = "primary_owner")
             /\ name_reply' = IF reply = "DBusException" THEN name_reply ELSE reply
             /\ IF r.exits THEN Exit(r.code, r.cause) ELSE Goto("init_fields")
    /\ UNCHANGED << envVars, machine, handlers, procVars, obj, reg_attempts, calls, lastCall,
                    lastNotify, lastReply, replySource, gateHist, auxVars, signalled >>

\* lines 148-150: the three fields are set and __init__ returns
InitFields ==
    /\ pc = "init_fields"
    /\ obj' = << DBUS_Object_init >>
    /\ Goto("run_loop")
    /\ UNCHANGED << envVars, machine, handlers, procVars, registered, name_reply, reg_attempts, reg_failed,
                    calls, lastCall, lastNotify, lastReply, replySource, gateHist, auxVars,
                    signalled >>

\* line 188: GLib.MainLoop().run()
RunMainLoop ==
    /\ pc = "run_loop"
    /\ LET r == main("ok", "ok")
       IN  IF r.loops THEN Goto("serving") ELSE Exit(0, "main_returned")
    /\ UNCHANGED << envVars, machine, handlers, procVars, relayVars, gateHist, auxVars,
                    signalled >>

\* the main loop dispatches one NotifyActiveWindow call
Notify ==
    /\ pc = "serving"
    /\ obj # << >>
    /\ calls < MaxCalls
    /\ \E who \in Callers, c \in Captions, rc \in ResourceClasses, rn \in ResourceNames :
         /\ obj' = << NotifyActiveWindow(obj[1], DBusString(c), DBusString(rc), DBusString(rn)) >>
         /\ lastNotify' = << [caller |-> who, caption |-> c, resource_class |-> rc,
                              resource_name |-> rn] >>
    /\ calls' = calls + 1
    /\ lastCall' = "NotifyActiveWindow"
    /\ UNCHANGED << envVars, machine, pc, exit_code, exit_cause, exit_from, handlers, procVars, registered, name_reply,
                    reg_attempts, reg_failed, lastReply, replySource, gateHist, auxVars,
                    signalled >>

\* variant: GetActiveWindow resets the stored window after reading it
Get_ReadAndClear ==
    /\ pc = "serving"
    /\ obj # << >>
    /\ calls < MaxCalls
    /\ lastReply' = << GetActiveWindow(obj[1]) >>
    /\ obj' = << DBUS_Object_init >>
    /\ replySource' = lastNotify
    /\ calls' = calls + 1
    /\ lastCall' = "GetActiveWindow"
    /\ UNCHANGED << envVars, machine, pc, exit_code, exit_cause, exit_from, handlers, procVars, registered, name_reply,
                    reg_attempts, reg_failed, lastNotify, gateHist, auxVars, signalled >>

\* the main loop dispatches one GetActiveWindow call
Get ==
    /\ pc = "serving"
    /\ obj # << >>
    /\ calls < MaxCalls
    /\ lastReply' = << GetActiveWindow(obj[1]) >>
    /\ replySource' = lastNotify
    /\ calls' = calls + 1
    /\ lastCall' = "GetActiveWindow"
    /\ UNCHANGED << envVars, machine, pc, exit_code, exit_cause, exit_from, handlers, procVars, obj, registered, name_reply,
                    reg_attempts, reg_failed, lastNotify, gateHist, auxVars, signalled >>

\* the owner of the bus name leaves the bus and the bus gives the name to the
\* queued request of line 147
BusNameAcquired ==
    /\ pc \in {"init_fields", "run_loop", "serving"}
    /\ name_reply = "in_queue"
    /\ ~registered
    /\ registered' = TRUE
    /\ UNCHANGED << envVars, machine, pc, exit_code, exit_cause, exit_from, handlers, procVars,
                    obj, name_reply, calls, lastCall, lastNotify, lastReply, replySource,
                    reg_attempts, reg_failed, gateHist, auxVars, signalled >>

\* the connection of dbus.SessionBus() (line 177) is lost while the main loop
\* runs: libdbus ends the process with status 1
BusDisconnected ==
    /\ pc = "serving"
    /\ Exit(1, "bus_disconnected")
    /\ UNCHANGED << envVars, machine, handlers, procVars, relayVars, gateHist, auxVars,
                    signalled >>

\* a signal arrives for which a handler is installed (lines 53-54) and
\* signal_handler runs
Signal ==
    /\ pc # "exited"
    /\ \E sig \in handlers :
         /\ signalled' = signalled \cup {sig}
         /\ IF signal_handler(sig) THEN Exit(0, "signal")
            ELSE UNCHANGED << pc, exit_code, exit_cause, exit_from >>
    /\ UNCHANGED << envVars, machine, handlers, procVars, relayVars, gateHist, auxVars >>

Next ==
    \/ RootCheck
    \/ PlatformCheck
    \/ Probe
    \/ GateCheck
    \/ Sleep
    \/ QueryTool
    \/ Kickstart
    \/ Main
    \/ InitExport
    \/ InitBusName
    \/ InitFields
    \/ RunMainLoop
    \/ Notify
    \/ Get
    \/ BusNameAcquired
    \/ BusDisconnected
    \/ Signal

Spec == Init /\ [][Next]_vars

\* the gate runs on: get_env_info() returns or raises, the loop head is
\* evaluated and time.sleep() returns.  Nothing is assumed of the steps after
\* the gate (check_output at line 109 and dbus.SessionBus() at line 177 have
\* no timeout and need not return), nor of signals, bus events and IPC calls,
\* which come from outside and need not come
FairSpec ==
    /\ Spec
    /\ WF_vars(Probe) /\ WF_vars(GateCheck) /\ WF_vars(Sleep)

(***************************************************************************)
(* get_env_info() applied on its own to a host state                       *)
(***************************************************************************)
InitEnv ==
    /\ ProcessStart
    /\ machine = [system |-> "Linux", os_name |-> "posix", euid |-> 1000]
    /\ probe_host \in FnHosts
    /\ probe_info = NotCalled

CallGetEnvInfo ==
    /\ probe_info = NotCalled
    /\ probe_info' = get_env_info(probe_host)
    /\ UNCHANGED << probe_host, machine, pc, exit_code, exit_cause, exit_from, handlers, procVars,
                    relayVars, gateHist, auxVars, signalled >>

NextEnv == CallGetEnvInfo

SpecEnv == InitEnv /\ [][NextEnv]_vars

(***************************************************************************)
(* Properties                                                              *)
(***************************************************************************)
\* the i-th probe of a run is compared by the gate while the delay is within
\* the ceiling
WithinCeiling(i) == InitialDelay + (i - 1) * DelayStep <= DelayCeiling

\* some probe taken within the retry ceiling returned the required pair
MatchedWithinCeiling ==
    \E i \in 1..Len(probeLog) : WithinCeiling(i) /\ probeLog[i] = "match"

\* the positions of the gate (AWAITING_ENVIRONMENT) and of main() before the loop
GatePositions == {"probe", "gate", "sleep"}
StartupPositions == {"main", "construct", "request_name", "init_fields", "run_loop"}

\* the process ended while it was in the gate
ExitedFromGate == pc = "exited" /\ exit_from \in GatePositions

\* C1: while serving, once a NotifyActiveWindow has been dispatched, every
\* GetActiveWindow reply is exactly the argument triple of the most recent
\* NotifyActiveWindow, whatever calls came before and whoever notified.
C1_GetReturnsLatestNotify ==
    (lastCall = "GetActiveWindow" /\ lastNotify # << >>) =>
        lastReply = << [caption        |-> lastNotify[1].caption,
                        resource_class |-> lastNotify[1].resource_class,
                        resource_name  |-> lastNotify[1].resource_name] >>

\* a reply given after three earlier calls, the latest notification being
\* one of another client than the KWin script
C1_Witness ==
    /\ lastCall = "GetActiveWindow"
    /\ calls >= 4
    /\ lastNotify # << >>
    /\ lastNotify[1].caller = "other-client"
    /\ lastReply[1].resource_class = "konsole"
    /\ lastReply[1].resource_name = "Navigator"

\* C2: a GetActiveWindow dispatched before any NotifyActiveWindow returns a
\* mapping with exactly the keys caption, resource_class, resource_name, each
\* with the value "NO_DATA".
C2_GetBeforeNotifyIsSentinel ==
    (lastReply # << >> /\ lastNotify = << >>) =>
        /\ DOMAIN lastReply[1] = {"caption", "resource_class", "resource_name"}
        /\ \A k \in DOMAIN lastReply[1] : lastReply[1][k] = "NO_DATA"

C2_Witness == lastCall = "GetActiveWindow" /\ lastNotify = << >> /\ calls = 1

\* C3: the process serves if and only if a probe taken within the retry
\* ceiling returned (wayland, kde|plasma); in every other run of the gate
\* the process exits with code 0 and the endpoint is never registered.
C3_ServingIffMatchElseExitZero ==
    /\ (pc = "serving" \/ registered) => MatchedWithinCeiling
    /\ (MatchedWithinCeiling /\ pc = "exited") => exit_cause # "gate_exhausted"
    /\ (pc = "exited" /\ probes > 0 /\ ~MatchedWithinCeiling) =>
            (exit_code = << 0 >> /\ ~registered)

\* C4: the delay starts at 2 and grows by exactly 2 per failed attempt (the
\* i-th sleep of a run lasts 2*i, so the delays never decrease), no sleep is
\* longer than 8, and a run whose probes all mismatch sleeps exactly
\* 2, 4, 6, 8 and ends with the delay at 10.
C4_DelaySchedule ==
    /\ \A i \in 1..Len(sleeps) : sleeps[i] = 2 * i /\ sleeps[i] <= 8
    /\ pc \in {"gate", "sleep"} => loop_delay # 0
    /\ loop_delay # 0 => loop_delay = 2 + 2 * Len(sleeps)
    /\ exit_cause = "gate_exhausted" => (sleeps = << 2, 4, 6, 8 >> /\ loop_delay = 10)

C4_Witness ==
    /\ exit_cause = "gate_exhausted"
    /\ probeLog = << "mismatch", "mismatch", "mismatch", "mismatch", "mismatch" >>

\* C5: when the first matching snapshot is the k-th probe's (k = 1..4) and
\* the earlier probes mismatched, the gate has made exactly k-1 retries with
\* sleeps 2, 4, ..., takes no further probe and goes on towards serving.
C5_MatchOnKthProbe ==
    \A k \in 1..4 :
        ( /\ Len(probeLog) >= k
          /\ probeLog[k] = "match"
          /\ \A j \in 1..(k - 1) : probeLog[j] = "mismatch" ) =>
            /\ probes = k
            /\ Len(probeLog) = k
            /\ sleeps = [i \in 1..(k - 1) |-> 2 * i]
            /\ pc \in {"gate", "query_tool", "kickstart", "serving", "exited"} \cup StartupPositions
            /\ exit_cause # "gate_exhausted"

\* the spec's scenario: a match on the third attempt, two retries, serving
C5_Witness ==
    /\ probeLog = << "mismatch", "mismatch", "match" >>
    /\ sleeps = << 2, 4 >>
    /\ pc = "serving"

\* C6: a probe that does not yield the required pair is never fatal; the
\* only exit from the gate that no signal caused is the code-0 exit taken
\* once the retry ceiling is exceeded.
C6_ProbeNeverFatal ==
    (ExitedFromGate /\ exit_cause # "signal") =>
        (exit_cause = "gate_exhausted" /\ exit_code = << 0 >>)

\* C7: a failed launch of the kickstart helper is not fatal: it is never
\* what ends the process.
C7_HelperFailureNotFatal ==
    (helper = "failed" /\ pc = "exited") =>
        exit_cause \in {"signal", "DBusException:SessionBus", "DBusException:DBUS_Object"}

\* C8: a SIGINT or SIGQUIT delivered while serving makes the process exit
\* with code 0, and once a signal has been handled no call is dispatched.
C8_SignalWhileServing ==
    [][ /\ (pc = "serving" /\ signalled' # signalled) =>
                (pc' = "exited" /\ exit_code' = << 0 >>)
        /\ signalled # {} =>
                (calls' = calls /\ obj' = obj /\ lastReply' = lastReply /\ lastCall' = lastCall)
      ]_vars

C8_Witness ==
    /\ registered
    /\ calls >= 2
    /\ signalled = {"SIGQUIT"}
    /\ pc = "exited"
    /\ exit_code = << 0 >>

\* C9: with elevated privileges or on a host that is not Linux the process
\* exits with code 1 before anything is created: no probe, no helper launch,
\* no endpoint.
C9_PreconditionViolationExitsOne ==
    (machine.euid = 0 \/ machine.system # "Linux") =>
        /\ probes = 0
        /\ helper_attempts = 0
        /\ reg_attempts = 0
        /\ ~registered
        /\ pc \in {"root_check", "platform_check", "exited"}
        /\ pc = "exited" => exit_code = << 1 >>

\* C10: when the endpoint registration fails after the gate has succeeded
\* (the bus is unavailable, or the name already has an owner) the process
\* exits with code 1, the registration is not tried again, the process never
\* serves and no call is dispatched.
C10_RegistrationFailureExitsOne ==
    (reg_failed \/ name_reply = "in_queue") =>
        /\ pc = "exited"
        /\ exit_code = << 1 >>
        /\ reg_attempts <= 1
        /\ ~registered
        /\ obj = << >>
        /\ calls = 0

\* C11: SERVING is terminal: once the endpoint is registered it stays
\* registered, no probe or sleep is made any more, and the only way the
\* process leaves SERVING is its termination by an interrupt/quit signal.
C11_ServingIsTerminal ==
    [][ /\ registered =>
            (registered' /\ probes' = probes /\ probeLog' = probeLog /\ sleeps' = sleeps)
        /\ registered' =>
            \/ pc' \in {"init_fields", "run_loop", "serving"}
            \/ (pc' = "exited" /\ exit_cause' = "signal" /\ signalled' # {})
        /\ pc = "serving" =>
            \/ pc' = "serving"
            \/ (pc' = "exited" /\ exit_cause' = "signal")
      ]_vars

\* the raw desktop name get_env_info reads from a host state
RawDesktopName(host) ==
    IF host.XDG_SESSION_DESKTOP \notin {None, ""} THEN host.XDG_SESSION_DESKTOP
    ELSE host.XDG_CURRENT_DESKTOP

\* name occurs in raw as a substring, letter case ignored
OccursIn(name, raw) ==
    \E i \in 1..(Len(raw) - Len(name) + 1) :
        \A j \in 1..Len(name) :
            FoldChar(SubSeq(raw, i + j - 1, i + j - 1)) = FoldChar(SubSeq(name, j, j))

\* the key of the first table entry whose name occurs in raw, else raw itself
ExpectedKey(raw) ==
    LET hits == {i \in 1..Len(desktop_env_names) : OccursIn(desktop_env_names[i][1], raw)}
    IN  IF hits = {} THEN raw
        ELSE desktop_env_names[CHOOSE i \in hits : \A j \in hits : i <= j][2]

\* the shell family of a process name ("" for any other process)
FamilyOf(name) ==
    IF name \in {"plasmashell", "kwin_ft", "kwin_x11"} THEN "kde"
    ELSE IF name = "gnome-shell" THEN "gnome"
    ELSE IF name = "sway" THEN "sway"
    ELSE ""

FamiliesRunning(procs) == {FamilyOf(procs[i]) : i \in 1..Len(procs)} \ {""}

\* C12: desktop-environment normalization gives the key of the first table
\* entry whose known name occurs in the raw name as a case-insensitive
\* substring ("Plasma" gives "kde", "SwayWM" gives "sway"), and the raw name
\* unchanged when no entry matches.  Observed on probes whose result no
\* process listing has overridden.
C12_Normalization ==
    ( /\ probe_info.raised = ""
      /\ (~probe_host.psutil \/ FamiliesRunning(probe_host.procs) = {}) ) =>
        LET raw == RawDesktopName(probe_host)
        IN  /\ probe_info.DESKTOP_ENV = ExpectedKey(raw)
            /\ raw = "Plasma" => probe_info.DESKTOP_ENV = "kde"
            /\ raw = "SwayWM" => probe_info.DESKTOP_ENV = "sway"
            /\ raw = "Openbox" => probe_info.DESKTOP_ENV = "Openbox"

\* a raw name two table entries match, normalized to the first one's key
C12_Witness ==
    /\ probe_info.raised = ""
    /\ ~probe_host.psutil
    /\ RawDesktopName(probe_host) = "Budgie:GNOME"
    /\ probe_info.DESKTOP_ENV = "budgie"

\* C19: with the process listing available and shell processes of exactly
\* one family running, the probe reports that family's key whatever the
\* declared name normalizes to; with no such process running the name-derived
\* guess is returned unchanged.
C19_Corroboration ==
    (probe_info.raised = "" /\ probe_host.psutil) =>
        LET fams  == FamiliesRunning(probe_host.procs)
            guess == ExpectedKey(RawDesktopName(probe_host))
        IN  /\ Cardinality(fams) = 1 => probe_info.DESKTOP_ENV \in fams
            /\ fams = {} => probe_info.DESKTOP_ENV = guess

\* a declared Plasma session overridden by a lone sway process
C19_Witness ==
    /\ probe_info.raised = ""
    /\ probe_host.psutil
    /\ RawDesktopName(probe_host) = "Plasma"
    /\ probe_host.procs = << "bash", "sway" >>
    /\ probe_info.DESKTOP_ENV = "sway"

\* C13: GetActiveWindow has no side effects: a GetActiveWindow step leaves
\* the stored window unchanged, the stored window changes only in a
\* NotifyActiveWindow step, and a GetActiveWindow that directly follows
\* another returns the same result.
C13_GetHasNoSideEffects ==
    [][ /\ (calls' # calls /\ lastCall' = "GetActiveWindow") =>
                (obj' = obj /\ lastNotify' = lastNotify)
        /\ (obj # << >> /\ obj' # obj) =>
                (calls' # calls /\ lastCall' = "NotifyActiveWindow")
        /\ (calls' # calls /\ lastCall = "GetActiveWindow" /\ lastCall' = "GetActiveWindow") =>
                lastReply' = lastReply
      ]_vars

\* two GetActiveWindow calls in a row after a notification
C13_Witness ==
    /\ calls = 3
    /\ lastCall = "GetActiveWindow"
    /\ lastNotify # << >>
    /\ lastReply = << GetActiveWindow(obj[1]) >>
    /\ lastReply[1].caption = "Konsole"

\* the process is in the environment gate
InGate == pc \in {"probe", "gate", "sleep"}

\* C15: the gate always terminates: it never sleeps more than 4 times or
\* probes more than 5 times, and a process in the gate eventually leaves it,
\* towards the relay startup or by exiting.
C15_GateTerminates ==
    /\ [](Len(sleeps) <= 4 /\ probes <= 5)
    /\ (InGate ~> ~InGate)

C15_Witness ==
    /\ pc = "gate"
    /\ Len(sleeps) = 4
    /\ probes = 5

\* the triple of a notification
TripleOf(n) ==
    [caption |-> n.caption, resource_class |-> n.resource_class,
     resource_name |-> n.resource_name]

\* C16: every GetActiveWindow result is whole: it is the sentinel triple when
\* no notification preceded it, and otherwise the complete argument triple of
\* one single NotifyActiveWindow call (the latest one dispatched before it),
\* never a mix of the fields of two notifications or of one and the sentinel.
C16_RepliesAreWhole ==
    lastReply # << >> =>
        IF replySource = << >>
        THEN lastReply[1] = [caption |-> "NO_DATA", resource_class |-> "NO_DATA",
                             resource_name |-> "NO_DATA"]
        ELSE lastReply[1] = TripleOf(replySource[1])

\* a reply taken between the notifications of two different callers
C16_Witness ==
    /\ lastReply # << >>
    /\ replySource # << >>
    /\ lastNotify # replySource
    /\ replySource[1].caller = "kwin-script"
    /\ lastNotify[1].caller = "other-client"
    /\ lastReply[1].caption # lastNotify[1].caption
    /\ lastReply[1].resource_name # lastNotify[1].resource_name

\* C17 as stated: the helper is launched only in runs in which the endpoint
\* is registered, so a run whose endpoint registration fails never launches
\* the helper.
C17_HelperOnlyWhenRegistered ==
    /\ (pc = "exited" /\ helper = "launched") => registered
    /\ reg_failed => helper_attempts = 0

\* C17 amended: the helper is launched when the gate has succeeded, before
\* the endpoint registration is attempted: it is launched only after a match
\* within the retry ceiling, every registration attempt follows a successful
\* launch, and a run whose registration fails has already launched the helper.
C17_HelperBeforeRegistration ==
    /\ helper_attempts > 0 => (MatchedWithinCeiling /\ qtool # "not_run")
    /\ (reg_attempts > 0 \/ registered \/ reg_failed) => helper = "launched"
    /\ helper = "launched" => pc \in {"serving", "exited"} \cup StartupPositions

C17_Witness ==
    /\ helper = "launched"
    /\ exit_cause = "DBusException:SessionBus"
    /\ exit_code = << 1 >>
    /\ ~registered

\* C18: the kickstart launch is a one-shot action: it is never attempted
\* twice, never in a run whose gate is exhausted or has not matched, it has
\* been attempted exactly once when main() is reached and all the time the
\* process serves, and every run whose gate succeeded and that no signal
\* ended has attempted it exactly once.
C18_HelperOneShot ==
    /\ helper_attempts <= 1
    /\ (pc \in StartupPositions \cup {"serving"} \/ calls > 0 \/ reg_attempts > 0) =>
            helper_attempts = 1
    /\ exit_cause = "gate_exhausted" => helper_attempts = 0
    /\ helper_attempts > 0 => MatchedWithinCeiling
    /\ ( /\ pc = "exited"
         /\ exit_from \in {"query_tool", "kickstart", "serving"} \cup StartupPositions
         /\ exit_cause # "signal" ) => helper_attempts = 1

\* C20: the gate takes at most 5 probes and consults only the first 4: when
\* the fifth probe returns a snapshot, matching or not, the process exits
\* with code 0 without launching the helper or registering the endpoint.
C20_FifthProbeIgnored ==
    /\ probes <= 5
    /\ (Len(probeLog) = 5 /\ probeLog[5] # "raised") =>
            /\ ~registered
            /\ helper_attempts = 0
            /\ qtool = "not_run"
            /\ pc \in {"gate", "exited"}
            /\ pc = "exited" => exit_code = << 0 >>

C20_Witness ==
    /\ Len(probeLog) = 5
    /\ probeLog[5] = "match"
    /\ exit_cause = "gate_exhausted"
    /\ exit_code = << 0 >>

\* positions in the listing of the processes whose shell family differs from
\* the name-derived guess
DifferingProcs(guess, procs) ==
    {i \in 1..Len(procs) : FamilyOf(procs[i]) \notin {"", guess}}

\* C21: the process-list corroboration applies at most one override per
\* probe, taken from the first process in listing order whose shell family
\* differs from the name-derived guess; so with the guess "kde" and a
\* gnome-shell or sway process anywhere in the listing the probe does not
\* report "kde", whether or not plasmashell is running too, and the gate
\* condition is false of that probe.
C21_FirstDifferingProcessWins ==
    (probe_info.raised = "" /\ probe_host.psutil) =>
        LET procs == probe_host.procs
            guess == ExpectedKey(RawDesktopName(probe_host))
            diff  == DifferingProcs(guess, procs)
            first == CHOOSE i \in diff : \A j \in diff : i <= j
        IN  /\ diff = {} => probe_info.DESKTOP_ENV = guess
            /\ diff # {} => probe_info.DESKTOP_ENV = FamilyOf(procs[first])
            /\ (guess = "kde" /\ FamiliesRunning(procs) \cap {"gnome", "sway"} # {}) =>
                    /\ probe_info.DESKTOP_ENV \in {"gnome", "sway"}
                    /\ ~GateMatch(probe_info.DESKTOP_ENV, probe_info.SESSION_TYPE)

\* a declared Plasma session on Wayland with gnome-shell listed before sway:
\* the probe reports gnome, the first of the two
C21_Witness ==
    /\ probe_info.raised = ""
    /\ probe_host.psutil
    /\ RawDesktopName(probe_host) = "Plasma"
    /\ probe_host.XDG_SESSION_TYPE = "wayland"
    /\ probe_host.procs = << "gnome-shell", "sway" >>
    /\ probe_info.DESKTOP_ENV = "gnome"

\* C22: the interrupt/quit handler is installed before the gate starts, so
\* in every state of the gate, a backoff sleep included, SIGINT and SIGQUIT
\* can be delivered to it, and a delivery makes the process exit with code 0:
\* no probe is taken afterwards, the helper is not launched and the endpoint
\* is not registered.
C22_SignalDuringGate ==
    /\ [](InGate => (handlers = Signals /\ ENABLED Signal))
    /\ [][ /\ (InGate /\ signalled' # signalled) =>
                 ( /\ pc' = "exited" /\ exit_code' = << 0 >> /\ exit_from' = pc
                   /\ probes' = probes /\ sleeps' = sleeps
                   /\ helper_attempts' = 0 /\ reg_attempts' = 0 /\ ~registered' )
           /\ (pc = "exited") =>
                 ( /\ pc' = "exited" /\ probes' = probes
                   /\ helper_attempts' = helper_attempts /\ registered' = registered )
         ]_vars

\* SIGQUIT delivered during the third backoff sleep
C22_Witness ==
    /\ pc = "exited"
    /\ exit_from = "sleep"
    /\ exit_cause = "signal"
    /\ signalled = {"SIGQUIT"}
    /\ exit_code = << 0 >>
    /\ probes = 3
    /\ Len(sleeps) = 2
    /\ helper_attempts = 0
    /\ ~registered

\* C14: the query-tool check is purely informational: whatever the tool
\* does, the run goes on to the helper launch as it does when the tool is
\* missing, so the check itself never ends the process; only a signal
\* delivered at that point does.
C14_QueryToolNeverEndsRun ==
    (pc = "exited" /\ exit_from = "query_tool") => exit_cause = "signal"

====
